---- MODULE Spec2Model ----
(***************************************************************************)
(* POST /api/analyze-content of the LinkedIn Search Everywhere backend:    *)
(* the request handler, the suggestion resolver analyzeWithOpenAI and the  *)
(* keyword fallback generateFallbackSuggestions.  The repository holds two *)
(* server files, src/server.js and src/unnamed/part_000; both are          *)
(* modelled, the variable file says which one is deployed.                 *)
(*                                                                         *)
(* JavaScript strings are sequences of one-character strings, so that     *)
(* length, toLowerCase and includes are computed and not assumed.  The     *)
(* text returned by the external API is a sequence of lexical tokens       *)
(* (code fence, the word json, newline, space, prose, one JSON value), so  *)
(* that trim, the two fence-stripping replaces and JSON.parse are computed.*)
(***************************************************************************)
EXTENDS Integers, Sequences, FiniteSets, TLC

VARIABLES file, apiKey, pc, content, status, body, resolverCalls,
          externalCalls, response, extError, outcome

vars == <<file, apiKey, pc, content, status, body, resolverCalls,
          externalCalls, response, extError, outcome>>

(* ------------------------------ bounds -------------------------------- *)
\* words per content string of a request
MaxWords == 2
\* words per content string handed to the fallback generator alone
MaxFbWords == 3
\* elements of a JSON array returned by the external API
MaxElems == 3

(* ------------------------- program constants -------------------------- *)
MinLength == 10
SliceEnd == 2

ServerJs == "server.js"
Part000 == "part_000"
Files == {ServerJs, Part000}

(* --------------------------- JavaScript values ------------------------ *)
\* a primitive or opaque value: its typeof-like tag and its text
JSVal(t, v) == [t |-> t, v |-> v]
Undefined == JSVal("undefined", "")
Null == JSVal("null", "null")
Str(s) == JSVal("string", s)
Num(s) == JSVal("number", s)
False == JSVal("boolean", "false")
SomeObject == JSVal("object", "{}")

\* ToBoolean: undefined, null, false, 0, NaN and "" are falsy
Truthy(x) ==
  ~ \/ x.t \in {"undefined", "null"}
    \/ x = False
    \/ x = Num("0")
    \/ x = Str("")

\* a || b
Or(a, b) == IF Truthy(a) THEN a ELSE b

\* an element of a parsed JSON array: an object with optional title and
\* description and possibly other fields (extra), or null
Elem(t, title, description, extra) ==
  [t |-> t, title |-> title, description |-> description, extra |-> extra]
Obj(title, description, extra) == Elem("object", title, description, extra)
NullElem == Elem("null", Undefined, Undefined, FALSE)

\* a parsed JSON value: an array of elements, or a non-array
Parsed(t, elems) == [t |-> t, elems |-> elems]
Arr(elems) == Parsed("array", elems)
NoValue == Parsed("none", <<>>)

(* ------------------------------ strings ------------------------------- *)
Upper == <<"A", "B", "C", "D", "E", "F", "G", "H", "I", "J", "K", "L", "M", "N", "O", "P", "Q", "R", "S", "T", "U", "V", "W", "X", "Y", "Z">>
Lower == <<"a", "b", "c", "d", "e", "f", "g", "h", "i", "j", "k", "l", "m", "n", "o", "p", "q", "r", "s", "t", "u", "v", "w", "x", "y", "z">>

\* one character of String.prototype.toLowerCase
ToLowerChar(c) ==
  IF \E i \in 1..Len(Upper) : Upper[i] = c
  THEN Lower[CHOOSE i \in 1..Len(Upper) : Upper[i] = c]
  ELSE c

\* String.prototype.toLowerCase
toLowerCase(s) == [i \in 1..Len(s) |-> ToLowerChar(s[i])]

\* String.prototype.includes: k occurs in s as a contiguous substring
includes(s, k) ==
  \E i \in 0..(Len(s) - Len(k)) : SubSeq(s, i + 1, i + Len(k)) = k

\* the keywords of the four families
Kw_data == <<"d", "a", "t", "a">>
Kw_analytics == <<"a", "n", "a", "l", "y", "t", "i", "c", "s">>
Kw_analysis == <<"a", "n", "a", "l", "y", "s", "i", "s">>
Kw_marketing == <<"m", "a", "r", "k", "e", "t", "i", "n", "g">>
Kw_brand == <<"b", "r", "a", "n", "d">>
Kw_campaign == <<"c", "a", "m", "p", "a", "i", "g", "n">>
Kw_leadership == <<"l", "e", "a", "d", "e", "r", "s", "h", "i", "p">>
Kw_management == <<"m", "a", "n", "a", "g", "e", "m", "e", "n", "t">>
Kw_team == <<"t", "e", "a", "m">>
Kw_tech == <<"t", "e", "c", "h">>
Kw_software == <<"s", "o", "f", "t", "w", "a", "r", "e">>
Kw_developer == <<"d", "e", "v", "e", "l", "o", "p", "e", "r">>

\* words that request contents are made of
W_Data == <<"D", "a", "t", "a">>
W_brand == <<"b", "r", "a", "n", "d">>
W_TEAMS == <<"T", "E", "A", "M", "S">>
W_hello == <<"h", "e", "l", "l", "o">>
W_analysis == <<"a", "n", "a", "l", "y", "s", "i", "s">>
W_Campaign == <<"C", "a", "m", "p", "a", "i", "g", "n">>
W_developer == <<"d", "e", "v", "e", "l", "o", "p", "e", "r">>
W_technology == <<"t", "e", "c", "h", "n", "o", "l", "o", "g", "y">>
W_Management == <<"M", "a", "n", "a", "g", "e", "m", "e", "n", "t">>
Space == <<" ">>

\* Array.prototype.slice(0, n) on a sequence
slice0(seq, n) == SubSeq(seq, 1, IF Len(seq) < n THEN Len(seq) ELSE n)

\* the words joined by single spaces
RECURSIVE Join(_)
Join(ws) ==
  IF Len(ws) = 0 THEN <<>>
  ELSE IF Len(ws) = 1 THEN ws[1]
  ELSE ws[1] \o Space \o Join(Tail(ws))

\* every string of at most max words of W ("" included)
StringsOf(W, max) == { Join(ws) : ws \in UNION { [1..k -> W] : k \in 0..max } }

(* ------------------------- the request's content ---------------------- *)
\* req.body.content after express.json(): any JSON value, or absent.
\* s is the text of a string, n the length of an array.
Content(t, s, n) == [t |-> t, s |-> s, n |-> n]
CAbsent == Content("undefined", <<>>, 0)
CNull == Content("null", <<>>, 0)
CZero == Content("number", <<>>, 0)
CNumber == Content("number", <<>>, 1)
CFalse == Content("boolean", <<>>, 0)
CTrue == Content("boolean", <<>>, 1)
CObject == Content("object", <<>>, 0)
CArray(n) == Content("array", <<>>, n)
CString(s) == Content("string", s, 0)

\* !content
Falsy(c) ==
  \/ c.t \in {"undefined", "null"}
  \/ c = CZero
  \/ c = CFalse
  \/ c = CString(<<>>)

\* content.length < 10 ; the length of a value that has none is undefined,
\* and undefined < 10 is false
LengthBelowMin(c) ==
  CASE c.t = "string" -> Len(c.s) < MinLength
    [] c.t = "array" -> c.n < MinLength
    [] OTHER -> FALSE

\* a plausible slip: the bound off by one
Invalid_offByOne(c) ==
  \/ Falsy(c)
  \/ c.t = "string" /\ Len(c.s) < MinLength - 1
  \/ c.t = "array" /\ c.n < MinLength - 1

\* the handler's check: !content || content.length < 10
Invalid(c) == Falsy(c) \/ LengthBelowMin(c)

\* content.length as written into the 200 body
ContentLength(c) == IF c.t = "string" THEN Len(c.s) ELSE c.n

(* ---------------------------- the fallback ---------------------------- *)
DataSuggestion ==
  Obj(Str("Data Analytics Courses"),
      Str("Explore data science and analytics courses on LinkedIn Learning"), FALSE)
MarketingSuggestion ==
  Obj(Str("Digital Marketing Resources"),
      Str("Find marketing professionals and learning resources"), FALSE)
LeadershipSuggestion ==
  Obj(Str("Leadership Development"),
      Str("Connect with leaders and explore management courses"), FALSE)
TechSuggestion ==
  Obj(Str("Technology Skills"),
      Str("Discover the latest tech courses and connect with developers"), FALSE)
DefaultSuggestions ==
  << Obj(Str("Professional Development"),
         Str("Discover learning opportunities related to this topic"), FALSE),
     Obj(Str("Network Growth"),
         Str("Connect with professionals in your field"), FALSE) >>

MatchesData(l) ==
  includes(l, Kw_data) \/ includes(l, Kw_analytics) \/ includes(l, Kw_analysis)
MatchesMarketing(l) ==
  includes(l, Kw_marketing) \/ includes(l, Kw_brand) \/ includes(l, Kw_campaign)
MatchesLeadership(l) ==
  includes(l, Kw_leadership) \/ includes(l, Kw_management) \/ includes(l, Kw_team)
MatchesTech(l) ==
  includes(l, Kw_tech) \/ includes(l, Kw_software) \/ includes(l, Kw_developer)

\* the suggestions pushed by the four independent ifs, in source order
Pushed(l) ==
  (IF MatchesData(l) THEN <<DataSuggestion>> ELSE <<>>)
  \o (IF MatchesMarketing(l) THEN <<MarketingSuggestion>> ELSE <<>>)
  \o (IF MatchesLeadership(l) THEN <<LeadershipSuggestion>> ELSE <<>>)
  \o (IF MatchesTech(l) THEN <<TechSuggestion>> ELSE <<>>)

\* a plausible slip: an else-if chain, so only the first family is pushed
generateFallbackSuggestions_elseIf(s) ==
  LET l == toLowerCase(s)
      first == IF MatchesData(l) THEN <<DataSuggestion>>
               ELSE IF MatchesMarketing(l) THEN <<MarketingSuggestion>>
               ELSE IF MatchesLeadership(l) THEN <<LeadershipSuggestion>>
               ELSE IF MatchesTech(l) THEN <<TechSuggestion>>
               ELSE <<>>
  IN slice0(IF Len(first) = 0 THEN DefaultSuggestions ELSE first, SliceEnd)

\* generateFallbackSuggestions(content), content a string
generateFallbackSuggestions(s) ==
  LET contentLower == toLowerCase(s)
      suggestions == Pushed(contentLower)
  IN slice0(IF Len(suggestions) = 0 THEN DefaultSuggestions ELSE suggestions,
            SliceEnd)

(* ------------------- the external API's response text ----------------- *)
\* one lexical token of the text: a code fence ```, the word json, a
\* newline, a space, prose, or the text of one JSON value (val)
Tok(k, val) == [k |-> k, val |-> val]
FenceTok == Tok("fence", NoValue)
JsonWordTok == Tok("json", NoValue)
NlTok == Tok("nl", NoValue)
SpTok == Tok("sp", NoValue)
ProseTok == Tok("prose", NoValue)
ValueTok(v) == Tok("value", v)

IsSpace(tok) == tok.k \in {"nl", "sp"}

\* String.prototype.trim
RECURSIVE trimStart(_)
trimStart(text) ==
  IF Len(text) > 0 /\ IsSpace(text[1]) THEN trimStart(Tail(text)) ELSE text
RECURSIVE trimEnd(_)
trimEnd(text) ==
  IF Len(text) > 0 /\ IsSpace(text[Len(text)])
  THEN trimEnd(SubSeq(text, 1, Len(text) - 1))
  ELSE text
trim(text) == trimEnd(trimStart(text))

\* the rest of the text when it starts with a newline, which \n? consumes
SkipNl(text) == IF Len(text) > 0 /\ text[1].k = "nl" THEN Tail(text) ELSE text

\* .replace(/```json\n?/g, '')
RECURSIVE replaceJsonFence(_)
replaceJsonFence(text) ==
  IF Len(text) = 0 THEN <<>>
  ELSE IF Len(text) >= 2 /\ text[1].k = "fence" /\ text[2].k = "json"
  THEN replaceJsonFence(SkipNl(SubSeq(text, 3, Len(text))))
  ELSE <<text[1]>> \o replaceJsonFence(Tail(text))

\* .replace(/```\n?/g, '')
RECURSIVE replaceFence(_)
replaceFence(text) ==
  IF Len(text) = 0 THEN <<>>
  ELSE IF text[1].k = "fence"
  THEN replaceFence(SkipNl(Tail(text)))
  ELSE <<text[1]>> \o replaceFence(Tail(text))

\* the clean-up of the response text
Cleanup(text) == trim(replaceFence(replaceJsonFence(trim(text))))

\* JSON.parse: the text must be one JSON value, white space around it
\* allowed; anything else throws a SyntaxError
NotSpace(tok) == ~IsSpace(tok)
JSONparse(text) ==
  LET sig == SelectSeq(text, NotSpace)
  IN IF Len(sig) = 1 /\ sig[1].k = "value"
     THEN [ok |-> TRUE, val |-> sig[1].val]
     ELSE [ok |-> FALSE, val |-> NoValue]

(* ------------------------------ errors -------------------------------- *)
\* an error's message, as its sequence of words
TypeErrorSubstring == <<"content.substring", "is", "not", "a", "function">>
ApiKeyNotConfigured == <<"OpenAI", "API", "key", "not", "configured">>
RateLimitMessage == <<"429", "rate", "limit", "exceeded">>
ConnectionMessage == <<"Connection", "error.">>
AuthMessage == <<"401", "Incorrect", "API", "key", "provided">>
ExternalErrors == {RateLimitMessage, ConnectionMessage, AuthMessage}

\* what a call ends with: a returned value or a thrown error
Returned(v) == [threw |-> FALSE, value |-> v, message |-> <<>>]
Thrown(m) == [threw |-> TRUE, value |-> <<>>, message |-> m]

(* ------------------------- analyzeWithOpenAI -------------------------- *)
DefaultTitle == Str("Professional Development")
DefaultDescription == Str("Explore related opportunities on LinkedIn")

\* a plausible slip: the key is never checked
HasCredential_always(key) == TRUE

\* process.env.OPENAI_API_KEY is set
HasCredential(key) == key

\* the branch taken when no key is configured
analyzeNoCredential(f, s) ==
  IF f = ServerJs
  THEN Returned(generateFallbackSuggestions(s))
  ELSE Thrown(ApiKeyNotConfigured)

\* a plausible slip: the outer catch rethrows
analyzeCatch_rethrow(message, s) == Thrown(message)

\* the outer catch: any error of the external step becomes the fallback
analyzeCatch(message, s) == Returned(generateFallbackSuggestions(s))

\* try { JSON.parse } catch { fallback }
parseOrFallback(text, s) ==
  LET p == JSONparse(text)
  IN IF p.ok THEN p.val ELSE Arr(generateFallbackSuggestions(s))

\* a plausible slip: the empty array is not checked for
needsFallback_noEmptyCheck(v) == v.t # "array"

\* !Array.isArray(suggestions) || suggestions.length === 0
needsFallback(v) == v.t # "array" \/ Len(v.elems) = 0

validate(v, s) ==
  IF needsFallback(v) THEN Arr(generateFallbackSuggestions(s)) ELSE v

\* a plausible slip: ?? in place of ||, so only undefined and null are replaced
normalizeOne_nullish(e) ==
  Obj(IF e.title.t \in {"undefined", "null"} THEN DefaultTitle ELSE e.title,
      IF e.description.t \in {"undefined", "null"}
      THEN DefaultDescription ELSE e.description,
      FALSE)

\* a plausible slip: a misspelt field name, so the description is always the default
normalizeOne_wrongField(e) ==
  Obj(Or(e.title, DefaultTitle), DefaultDescription, FALSE)

\* title: suggestion.title || "...", description: suggestion.description || "..."
normalizeOne(e) ==
  Obj(Or(e.title, DefaultTitle), Or(e.description, DefaultDescription), FALSE)

\* a plausible slip: the slice is forgotten
normalize_noSlice(elems) == [i \in 1..Len(elems) |-> normalizeOne(elems[i])]

\* suggestions.slice(0, 2).map(...)
normalize(elems) ==
  LET kept == slice0(elems, SliceEnd)
  IN [i \in 1..Len(kept) |-> normalizeOne(kept[i])]

\* reading .title of null throws a TypeError inside map
mapThrows(elems) ==
  LET kept == slice0(elems, SliceEnd)
  IN \E i \in 1..Len(kept) : kept[i].t = "null"

\* everything after the external call has returned the text
analyzeResponse(text, s) ==
  LET suggestions == validate(parseOrFallback(Cleanup(text), s), s)
  IN IF mapThrows(suggestions.elems)
     THEN analyzeCatch(<<"Cannot", "read", "properties", "of", "null">>, s)
     ELSE Returned(normalize(suggestions.elems))

\* which path analyzeResponse took
Classify(text) ==
  LET p == JSONparse(Cleanup(text))
  IN IF ~p.ok THEN "parseFailure"
     ELSE IF p.val.t # "array" THEN "notArray"
     ELSE IF Len(p.val.elems) = 0 THEN "emptyArray"
     ELSE IF mapThrows(p.val.elems) THEN "mapThrow"
     ELSE "normalized"

(* --------------------------- the handler ------------------------------ *)
MinLengthError == "Content is required and must be at least 10 characters long"
ConfigurationError == "Service configuration error"
BusyError == "Service temporarily busy, please try again"
UnavailableError == "Analysis temporarily unavailable"

\* the JSON body of a response; contentLength is -1 when the field is not sent
Body(suggestions, error, contentLength) ==
  [suggestions |-> suggestions, error |-> error, contentLength |-> contentLength]
NoBody == Body(<<>>, "", -1)
Reply(st, b) == [status |-> st, body |-> b]

\* the handler's catch block
handlerCatch(message) ==
  IF includes(message, <<"API", "key">>)
  THEN Reply(500, Body(<<>>, ConfigurationError, -1))
  ELSE IF includes(message, <<"rate", "limit">>)
  THEN Reply(429, Body(<<>>, BusyError, -1))
  ELSE Reply(500, Body(<<>>, UnavailableError, -1))

\* res.json({ suggestions, timestamp, contentLength }); part_000 sends no
\* contentLength
okReply(f, suggestions, c) ==
  Reply(200, Body(suggestions, "",
                  IF f = ServerJs THEN ContentLength(c) ELSE -1))

\* what the handler answers once analyzeWithOpenAI has settled with r
handlerSettle(f, r, c) ==
  IF r.threw THEN handlerCatch(r.message) ELSE okReply(f, r.value, c)

(* ------------------------------ inputs -------------------------------- *)
FlowWords == {W_Data, W_brand, W_hello}
FbWords == {W_Data, W_analysis, W_Campaign, W_Management, W_TEAMS, W_developer,
            W_technology, W_hello}

Contents ==
  {CAbsent, CNull, CZero, CNumber, CFalse, CTrue, CObject, CArray(3), CArray(12)}
  \cup { CString(s) : s \in StringsOf(FlowWords, MaxWords) }

\* {"title":"X"}, {"description":"D","url":"u"}, {"title":"","description":false},
\* {"title":5,"description":{}}, null
Elements ==
  { Obj(Str("X"), Undefined, FALSE),
    Obj(Undefined, Str("D"), TRUE),
    Obj(Str(""), False, FALSE),
    Obj(Num("5"), SomeObject, FALSE),
    NullElem }

JsonValues ==
  { Arr(es) : es \in UNION { [1..k -> Elements] : k \in 0..MaxElems } }
  \cup { Parsed("object", <<>>), Parsed("string", <<>>), Parsed("null", <<>>) }

Prefixes == { <<>>, <<FenceTok, JsonWordTok, NlTok>>, <<ProseTok, SpTok>> }
Suffixes == { <<>>, <<NlTok, FenceTok>> }
Payloads == { <<ValueTok(v)>> : v \in JsonValues } \cup { <<ProseTok>>, <<>> }

\* response.choices[0].message.content, when it is a string
Texts == { pre \o pay \o suf : pre \in Prefixes, pay \in Payloads, suf \in Suffixes }

(* ------------------------------ actions ------------------------------- *)
TypeOK ==
  /\ file \in Files
  /\ apiKey \in BOOLEAN
  /\ pc \in {"idle", "awaiting", "done"}
  /\ status \in {0, 200, 400, 429, 500}
  /\ resolverCalls \in 0..1
  /\ externalCalls \in 0..1

Init ==
  /\ file \in Files
  /\ apiKey \in BOOLEAN
  /\ pc = "idle"
  /\ content = CAbsent
  /\ status = 0
  /\ body = NoBody
  /\ resolverCalls = 0
  /\ externalCalls = 0
  /\ response = <<>>
  /\ extError = <<>>
  /\ outcome = "none"

Finish(reply, label) ==
  /\ pc' = "done"
  /\ status' = reply.status
  /\ body' = reply.body
  /\ outcome' = label

\* POST /api/analyze-content arrives with body { content: c }: the handler
\* runs up to its answer or up to the await of the external call
PostAnalyze ==
  /\ pc = "idle"
  /\ \E c \in Contents :
       /\ content' = c
       /\ IF Invalid(c)
          THEN /\ Finish(Reply(400, Body(<<>>, MinLengthError, -1)), "invalid")
               /\ UNCHANGED <<resolverCalls, externalCalls>>
          ELSE IF c.t # "string"
          THEN \* content.substring is not a function, in the console.log line
               /\ Finish(handlerCatch(TypeErrorSubstring), "handlerThrow")
               /\ UNCHANGED <<resolverCalls, externalCalls>>
          ELSE /\ resolverCalls' = resolverCalls + 1
               /\ IF ~HasCredential(apiKey)
                  THEN /\ Finish(handlerSettle(file, analyzeNoCredential(file, c.s), c),
                                 "noCredential")
                       /\ UNCHANGED externalCalls
                  ELSE /\ externalCalls' = externalCalls + 1
                       /\ pc' = "awaiting"
                       /\ UNCHANGED <<status, body, outcome>>
  /\ UNCHANGED <<file, apiKey, response, extError>>

\* openai.chat.completions.create resolves with some text
ExternalResponds ==
  /\ pc = "awaiting"
  /\ \E text \in Texts :
       /\ response' = text
       /\ Finish(handlerSettle(file, analyzeResponse(text, content.s), content),
                 Classify(text))
  /\ UNCHANGED <<file, apiKey, content, resolverCalls, externalCalls, extError>>

\* it resolves without text (no choices, or a null message content):
\* reading the text throws a TypeError inside the try
ExternalRespondsNoText ==
  /\ pc = "awaiting"
  /\ Finish(handlerSettle(file,
                          analyzeCatch(<<"Cannot", "read", "properties">>, content.s),
                          content),
            "noText")
  /\ UNCHANGED <<file, apiKey, content, resolverCalls, externalCalls, response,
                 extError>>

\* it rejects with an error
ExternalFails ==
  /\ pc = "awaiting"
  /\ \E message \in ExternalErrors :
       /\ extError' = message
       /\ Finish(handlerSettle(file, analyzeCatch(message, content.s), content),
                 "externalFailure")
  /\ UNCHANGED <<file, apiKey, content, resolverCalls, externalCalls, response>>

\* the request is over; the next one starts from fresh locals
NextRequest ==
  /\ pc = "done"
  /\ pc' = "idle"
  /\ content' = CAbsent
  /\ status' = 0
  /\ body' = NoBody
  /\ resolverCalls' = 0
  /\ externalCalls' = 0
  /\ response' = <<>>
  /\ extError' = <<>>
  /\ outcome' = "none"
  /\ UNCHANGED <<file, apiKey>>

Next ==
  \/ PostAnalyze
  \/ ExternalResponds
  \/ ExternalRespondsNoText
  \/ ExternalFails
  \/ NextRequest

Spec == Init /\ [][Next]_vars

(* ---------------- the fallback generator on its own ------------------- *)
FbContents == { CString(s) : s \in StringsOf(FbWords, MaxFbWords) }

FbInit ==
  /\ file \in Files
  /\ apiKey \in BOOLEAN
  /\ pc = "idle"
  /\ content = CAbsent
  /\ status = 0
  /\ body = NoBody
  /\ resolverCalls = 0
  /\ externalCalls = 0
  /\ response = <<>>
  /\ extError = <<>>
  /\ outcome = "none"

\* generateFallbackSuggestions is applied to a string
FbApply ==
  /\ pc = "idle"
  /\ \E c \in FbContents :
       /\ content' = c
       /\ body' = Body(generateFallbackSuggestions(c.s), "", -1)
  /\ pc' = "done"
  /\ outcome' = "fallback"
  /\ UNCHANGED <<file, apiKey, status, resolverCalls, externalCalls, response,
                 extError>>

FbReset ==
  /\ pc = "done"
  /\ pc' = "idle"
  /\ content' = CAbsent
  /\ body' = NoBody
  /\ outcome' = "none"
  /\ UNCHANGED <<file, apiKey, status, resolverCalls, externalCalls, response,
                 extError>>

FbNext == FbApply \/ FbReset

SpecFallback == FbInit /\ [][FbNext]_vars

(* ------------------------------ claims -------------------------------- *)
\* the list the fallback generator gives for the request's content
FallbackList == generateFallbackSuggestions(content.s)
\* the value the response text parsed to
ParsedValue == JSONparse(Cleanup(response)).val
ValidString == content.t = "string" /\ Len(content.s) >= 10

\* C1: a request whose content is absent, or has a length below 10, is
\* answered 400 with the minimum-length error, and neither the resolver nor
\* the external API is invoked for it.
C1_ShortContentRejected ==
  (/\ pc # "idle"
   /\ \/ content.t = "undefined"
      \/ content.t = "string" /\ Len(content.s) < 10
      \/ content.t = "array" /\ content.n < 10)
  => /\ pc = "done"
     /\ status = 400
     /\ body.error = MinLengthError
     /\ resolverCalls = 0
     /\ externalCalls = 0
C1_Witness ==
  /\ pc = "done"
  /\ content = CString(W_Data \o Space \o W_Data)
  /\ status = 400

\* C2: every request that passes the handler's check is answered 200 with a
\* suggestion list, whatever the external step did; with no credential, with
\* malformed JSON and with a failed external call the list is the fallback's.
C2_OnlyValidationErrors ==
  (pc = "done" /\ status # 400)
  => /\ status = 200
     /\ Len(body.suggestions) > 0
     /\ outcome \in {"noCredential", "parseFailure", "externalFailure"}
        => body.suggestions = FallbackList

\* C3 as stated: a rate-limit failure of the external call is answered 429.
C3_RateLimitGives429 ==
  (pc = "done" /\ outcome = "externalFailure"
   /\ includes(extError, <<"rate", "limit">>))
  => status = 429 /\ body.error # ""
\* C3 as amended: a rate-limit failure of the external call is absorbed by
\* the resolver; the answer is 200 with the fallback generator's list.
C3_RateLimitAbsorbed ==
  (pc = "done" /\ outcome = "externalFailure"
   /\ includes(extError, <<"rate", "limit">>))
  => status = 200 /\ body.error = "" /\ body.suggestions = FallbackList
C3_Witness ==
  /\ pc = "done"
  /\ extError = RateLimitMessage
  /\ status = 200

\* C4: every list the resolver returns has one or two suggestions.
C4_ListLength ==
  (pc = "done" /\ status = 200) => Len(body.suggestions) \in {1, 2}
C4_Witness ==
  /\ pc = "done"
  /\ outcome = "normalized"
  /\ Len(ParsedValue.elems) = 3
  /\ Len(body.suggestions) = 2

\* the families a lower-cased string matches, by precedence: 1 data,
\* 2 marketing, 3 leadership, 4 tech
FamiliesMatched(l) ==
  (IF MatchesData(l) THEN {1} ELSE {})
  \cup (IF MatchesMarketing(l) THEN {2} ELSE {})
  \cup (IF MatchesLeadership(l) THEN {3} ELSE {})
  \cup (IF MatchesTech(l) THEN {4} ELSE {})
FamilySuggestion ==
  << DataSuggestion, MarketingSuggestion, LeadershipSuggestion, TechSuggestion >>
Least(S) == CHOOSE i \in S : \A j \in S : i <= j
\* what the claim says of the result for the set hit of matched families
C5_Expected(hit, result) ==
  /\ hit = {} =>
       /\ result = DefaultSuggestions
       /\ result[1].title = Str("Professional Development")
       /\ result[2].title = Str("Network Growth")
  /\ Cardinality(hit) = 1 => result = << FamilySuggestion[Least(hit)] >>
  /\ Cardinality(hit) >= 2 =>
       result = << FamilySuggestion[Least(hit)],
                   FamilySuggestion[Least(hit \ {Least(hit)})] >>
  /\ hit = {1} => result[1].title = Str("Data Analytics Courses")

\* C5: the fallback generator returns the suggestions of the families the
\* lower-cased content matches, in the order data, marketing, leadership,
\* tech, cut to the first two: one when one family matches, the two first
\* when more match, and the two defaults when none does.
C5_FallbackByFamilies ==
  outcome = "fallback" =>
    C5_Expected(FamiliesMatched(toLowerCase(content.s)), body.suggestions)
C5_Witness ==
  /\ outcome = "fallback"
  /\ content = CString(W_developer \o Space \o W_TEAMS \o Space \o W_Campaign)
  /\ body.suggestions = << MarketingSuggestion, LeadershipSuggestion >>

ArrayOfObjects ==
  /\ outcome = "normalized"
  /\ \A i \in 1..Len(ParsedValue.elems) : ParsedValue.elems[i].t = "object"
\* the result is the first min(2, n) elements, in order
FirstTwoKept ==
  Len(body.suggestions) =
    (IF Len(ParsedValue.elems) < 2 THEN Len(ParsedValue.elems) ELSE 2)

\* C7 as stated: the result is the first min(2, n) elements, each its title
\* and description, a missing field replaced by its default and a present
\* field passed through unchanged.
C7_PresentFieldsUnchanged ==
  (pc = "done" /\ ArrayOfObjects)
  => /\ status = 200
     /\ FirstTwoKept
     /\ \A i \in 1..Len(body.suggestions) :
          LET e == ParsedValue.elems[i]
          IN body.suggestions[i] =
               Obj(IF e.title = Undefined THEN DefaultTitle ELSE e.title,
                   IF e.description = Undefined
                   THEN DefaultDescription ELSE e.description,
                   FALSE)
\* C7 as amended: ... a missing or falsy field (undefined, null, false, 0,
\* the empty string) replaced by its default and a truthy field passed
\* through unchanged.
C7_TruthyFieldsUnchanged ==
  (pc = "done" /\ ArrayOfObjects)
  => /\ status = 200
     /\ FirstTwoKept
     /\ \A i \in 1..Len(body.suggestions) :
          LET e == ParsedValue.elems[i]
              falsy(x) == x \in {Undefined, Null, False, Num("0"), Str("")}
          IN body.suggestions[i] =
               Obj(IF falsy(e.title) THEN DefaultTitle ELSE e.title,
                   IF falsy(e.description)
                   THEN DefaultDescription ELSE e.description,
                   FALSE)
\* the fenced response ```json\n[{"title":"X"}]\n``` of the spec's example
C7_Witness ==
  /\ pc = "done"
  /\ response = << FenceTok, JsonWordTok, NlTok,
                   ValueTok(Arr(<<Obj(Str("X"), Undefined, FALSE)>>)),
                   NlTok, FenceTok >>
  /\ body.suggestions = << Obj(Str("X"), DefaultDescription, FALSE) >>

C9_TwoStringFields ==
  (pc = "done" /\ status = 200)
  => \A i \in 1..Len(body.suggestions) :
       /\ body.suggestions[i].t = "object"
       /\ ~body.suggestions[i].extra
       /\ body.suggestions[i].title.t = "string"
       /\ body.suggestions[i].description.t = "string"

\* C10 as stated: an empty JSON array is normalized to an empty list.
C10_EmptyArrayGivesEmptyList ==
  (pc = "done" /\ outcome = "emptyArray") => body.suggestions = <<>>
\* C10 as amended: an empty JSON array triggers the fallback; the resolver
\* returns the fallback generator's list, which is not empty.
C10_EmptyArrayGivesFallback ==
  (pc = "done" /\ outcome = "emptyArray")
  => /\ status = 200
     /\ body.suggestions = FallbackList
     /\ Len(body.suggestions) >= 1
C10_Witness ==
  /\ pc = "done"
  /\ outcome = "emptyArray"
  /\ ParsedValue = Arr(<<>>)
  /\ body.suggestions = <<DataSuggestion>>

====
